---------------------------- MODULE Spec2Model ----------------------------
(***************************************************************************)
(* pycoinnet: the block fetcher (src/pycoinnet/Blockfetcher.py) and the    *)
(* framed transport (src/pycoinnet/Peer.py).                               *)
(*                                                                         *)
(* A BlockRequest is the tuple (pri, bh, f, peers_tried) built by          *)
(* fetch_blocks; it is identified here by its index in `req`.  The         *)
(* asyncio tasks are modelled at the granularity of the event loop: one    *)
(* action runs a task from one suspension point (lock wait, queue.get on   *)
(* an empty queue, asyncio.wait) to the next.                              *)
(***************************************************************************)
EXTENDS Integers, Sequences, FiniteSets, TLC

\* ------------------------------------------------------------------ bounds
MaxReq == 2
\* requests ever made in the runs of a single fetcher task
MaxSoloReq == 4
\* requests ever made in the runs without send failures
MaxQuietReq == 3
MaxPairs == 2
\* frames written to the stream of the receiving Peer
MaxFrames == 2
\* max_msg_size the receiving Peer is constructed with
MaxMsgSize == 2

Peers == {"A", "B"}
Hashes == {1, 2}
Priorities == {0, 1}

NoPeer == "none"
NoReq == 0
NoBlock == 0

\* ------------------------------------------------- constants of the program
target_batch_time == 3
max_batch_time == 6
MAX_BATCH_SIZE == 500
initial_batch_size == 10
\* loop.time() is read here in whole milliseconds
TicksPerSecond == 1000

\* elapsed times (in ticks) that a batch may be measured to have taken
ElapsedTimes == {0, 1, max_batch_time * TicksPerSecond}

VARIABLES
    req,                         \* req[i] = [pri, bh] of the i-th BlockRequest
    done,                        \* done[i]: result of future i (NoBlock: pending)
    has_item,                    \* requests whose future has its .item attribute
    held,                        \* futures the caller of fetch_blocks still holds
    dropped,                     \* futures the caller held and let go of
    peers_tried,                 \* peers_tried[i]
    block_hash_priority_queue,   \* the heap list of the asyncio.PriorityQueue
    futures,                     \* self._futures: hash -> request (NoReq: no entry)
    lock_holder,                 \* self._get_batch_lock: task holding it
    lock_waiters,                \* tasks suspended in its acquire(), FIFO
    pc,                          \* where each peer's _fetcher_loop task is
    phase,                       \* 1: the _get_batch of line 106, 2: of line 109
    batch_size,
    batch_1,
    batch_2,
    batch_futures,               \* local `futures` of the running _get_batch
    skipped,                     \* local `skipped` of the running _get_batch
    nset,                        \* history: set_result calls per future
    nclaim,                      \* history: nclaim[i][p] claims of i for p
    sent_dropped                 \* history: sent in a getdata after being dropped

vars == <<req, done, has_item, held, dropped, peers_tried, block_hash_priority_queue,
          futures, lock_holder, lock_waiters, pc, phase, batch_size, batch_1,
          batch_2, batch_futures, skipped, nset, nclaim, sent_dropped>>

\* One receiving Peer, the stream it reads and the tasks calling next_message.
VARIABLES
    wire,                        \* every byte written to the stream so far
    bytes_writ,                  \* _bytes_writ of the sending Peer
    buffered,                    \* bytes of `wire` that reached the StreamReader
    consumed,                    \* bytes readexactly has taken from the reader
    at_eof,                      \* the stream was closed by the remote side
    bytes_read,                  \* _bytes_read
    msg_lock,                    \* _msg_lock: the task holding it
    msg_waiters,                 \* tasks suspended in its acquire(), FIFO
    rpc,                         \* where each task is inside next_message
    rlocal,                      \* locals of the running call of each task
    outcome,                     \* how the last finished call of each task ended
    frames,                      \* history: the frames written, with offsets
    last_read,                   \* history: the latest completed readexactly
    torn,                        \* history: calls with a foreign read inside a frame
    return_log                   \* history: offsets of the returned messages

peer_vars == <<wire, bytes_writ, buffered, consumed, at_eof, bytes_read, msg_lock,
               msg_waiters, rpc, rlocal, outcome, frames, last_read, torn,
               return_log>>

all_vars == <<vars, peer_vars>>

Ids == 1..Len(req)

Min2(a, b) == IF a < b THEN a ELSE b

SeqSet(s) == {s[i] : i \in 1..Len(s)}

Count(s, x) == Cardinality({i \in 1..Len(s) : s[i] = x})

\* ------------------------------------------------------- the priority queue
\* item_a < item_b on the tuples (pri, bh, f, peers_tried): the same tuple is
\* not less than itself; otherwise pri decides, then bh; two different tuples
\* equal in both reach the futures, which are not orderable (TypeError).
ItemLess(r, a, b) ==
    IF a = b THEN "ge"
    ELSE IF r[a].pri # r[b].pri THEN (IF r[a].pri < r[b].pri THEN "lt" ELSE "ge")
    ELSE IF r[a].bh # r[b].bh THEN (IF r[a].bh < r[b].bh THEN "lt" ELSE "ge")
    ELSE "err"

Swap(heap, i, j) == [heap EXCEPT ![i] = heap[j], ![j] = heap[i]]

\* heapq _siftdown(heap, startpos, pos), positions 1-based here
RECURSIVE SiftDown(_, _, _, _)
SiftDown(r, heap, startpos, pos) ==
    IF pos <= startpos THEN [heap |-> heap, err |-> FALSE]
    ELSE LET parentpos == pos \div 2
             c == ItemLess(r, heap[pos], heap[parentpos])
         IN  IF c = "err" THEN [heap |-> heap, err |-> TRUE]
             ELSE IF c = "ge" THEN [heap |-> heap, err |-> FALSE]
             ELSE SiftDown(r, Swap(heap, parentpos, pos), startpos, parentpos)

\* heapq _siftup(heap, pos): move the smaller child up to a leaf, then
\* _siftdown from there
RECURSIVE SiftUp(_, _, _, _)
SiftUp(r, heap, startpos, pos) ==
    LET endpos == Len(heap)
        childpos == 2 * pos
    IN  IF childpos > endpos THEN SiftDown(r, heap, startpos, pos)
        ELSE IF childpos + 1 <= endpos
             THEN LET c == ItemLess(r, heap[childpos], heap[childpos + 1])
                  IN  IF c = "err" THEN [heap |-> heap, err |-> TRUE]
                      ELSE LET ch == IF c = "lt" THEN childpos ELSE childpos + 1
                           IN  SiftUp(r, Swap(heap, ch, pos), startpos, ch)
             ELSE SiftUp(r, Swap(heap, childpos, pos), startpos, childpos)

\* PriorityQueue._put: heapq.heappush
HeapPush(r, heap, item) ==
    SiftDown(r, Append(heap, item), 1, Len(heap) + 1)

\* PriorityQueue._get: heapq.heappop (heap is not empty); when a comparison
\* raises, the item that was being returned is no longer in the list
HeapPop(r, heap) ==
    LET n == Len(heap)
        lastelt == heap[n]
        rest == SubSeq(heap, 1, n - 1)
    IN  IF n = 1 THEN [heap |-> rest, err |-> FALSE, item |-> lastelt]
        ELSE LET s == SiftUp(r, [rest EXCEPT ![1] = lastelt], 1, 1)
             IN  [heap |-> s.heap, err |-> s.err, item |-> heap[1]]

\* ------------------------------------------------------------ handle_msg
\* handle_msg without the `not f.done()` test
ResolvableAnyFuture(f) == f # NoReq

\* `if f and not f.done()`
Resolvable(f) == f # NoReq /\ done[f] = NoBlock

\* a lookup that falls back on any registered future
LookupAny(bh) ==
    IF futures[bh] # NoReq THEN futures[bh]
    ELSE IF \E h \in Hashes : futures[h] # NoReq
         THEN futures[CHOOSE h \in Hashes : futures[h] # NoReq]
         ELSE NoReq

\* `self._futures.get(bh)` for the hash of the arriving block
Lookup(bh) == futures[bh]

\* what handle_msg(name, data) leaves of the fetcher's queue, registry,
\* peers_tried sets and deliveries
handle_msg(name, block) ==
    LET before == [queue |-> block_hash_priority_queue, futures |-> futures,
                   peers_tried |-> peers_tried, done |-> done, nset |-> nset]
    IN  IF name = "block"
        THEN LET bh == block.hash
                 f == Lookup(bh)
             IN  IF Resolvable(f)
                 THEN [before EXCEPT !.done[f] = block.hash,
                                     !.nset[f] = Min2(@ + 1, 2)]
                 ELSE before
        ELSE before

HandleMsg(name, block) ==
    /\ LET after == handle_msg(name, block)
       IN  /\ block_hash_priority_queue' = after.queue
           /\ futures' = after.futures
           /\ peers_tried' = after.peers_tried
           /\ done' = after.done
           /\ nset' = after.nset
    /\ UNCHANGED peer_vars
    /\ UNCHANGED <<req, has_item, held, dropped, lock_holder, lock_waiters, pc,
                   phase, batch_size, batch_1, batch_2, batch_futures, skipped,
                   nclaim, sent_dropped>>

\* ------------------------------------------------------------ fetch_blocks
\* the registry key under which fetch_blocks stores the future
RegistryKey(bh) == bh

\* one iteration of the for loop of fetch_blocks on the state record s
FetchOne(s, bh, pri) ==
    LET id == Len(s.req) + 1
        r2 == Append(s.req, [pri |-> pri, bh |-> bh])
        pushed == HeapPush(r2, s.q, id)
        s2 == [s EXCEPT !.req = r2, !.q = pushed.heap,
                        !.done = Append(@, NoBlock),
                        !.tried = Append(@, {}),
                        !.nset = Append(@, 0),
                        !.nclaim = Append(@, [p \in Peers |-> 0])]
    IN  IF pushed.err
        THEN [s2 EXCEPT !.err = TRUE]
        ELSE [s2 EXCEPT !.has_item = @ \cup {id},
                        !.r = @ \cup {id},
                        !.futures[RegistryKey(bh)] = id]

RECURSIVE FetchLoop(_, _)
FetchLoop(s, pairs) ==
    IF pairs = <<>> \/ s.err THEN s
    ELSE FetchLoop(FetchOne(s, Head(pairs)[1], Head(pairs)[2]), Tail(pairs))

PairLists == UNION {[1..n -> Hashes \X Priorities] : n \in 0..MaxPairs}

FetchBlocksUpTo(block_hash_priority_pair_list, limit) ==
    /\ Len(req) + Len(block_hash_priority_pair_list) <= limit
    /\ LET s0 == [req |-> req, q |-> block_hash_priority_queue, done |-> done,
                  tried |-> peers_tried, nset |-> nset,
                  nclaim |-> nclaim, has_item |-> has_item, r |-> {},
                  futures |-> futures, err |-> FALSE]
           s == FetchLoop(s0, block_hash_priority_pair_list)
       IN  /\ req' = s.req
           /\ block_hash_priority_queue' = s.q
           /\ done' = s.done
           /\ peers_tried' = s.tried
           /\ nset' = s.nset
           /\ nclaim' = s.nclaim
           /\ has_item' = s.has_item
           /\ futures' = s.futures
           /\ held' = IF s.err THEN held ELSE held \cup s.r
    /\ UNCHANGED peer_vars
    /\ UNCHANGED <<dropped, lock_holder, lock_waiters, pc, phase, batch_size,
                   batch_1, batch_2, batch_futures, skipped, sent_dropped>>

\* fetch_blocks while at most MaxReq requests were ever made
FetchBlocks(block_hash_priority_pair_list) ==
    FetchBlocksUpTo(block_hash_priority_pair_list, MaxReq)

\* ------------------------------------------------------------- _get_batch
\* The shared and per-task state a fetcher task changes while it runs; obs
\* collects what the run passed through (the batches its _get_batch calls
\* returned, the sends that raised) and is not kept in the state.
Machine ==
    [q |-> block_hash_priority_queue, tried |-> peers_tried, nclaim |-> nclaim,
     holder |-> lock_holder, waiters |-> lock_waiters, pc |-> pc,
     phase |-> phase, bs |-> batch_size, b1 |-> batch_1, b2 |-> batch_2,
     fut |-> batch_futures, skip |-> skipped, sent_dropped |-> sent_dropped,
     sends |-> <<>>, obs |-> <<>>]

\* Lock.release(): the first waiter, if any, is woken and is the next holder
Release(m) ==
    IF m.waiters = <<>> THEN [m EXCEPT !.holder = NoPeer]
    ELSE [m EXCEPT !.holder = Head(m.waiters), !.waiters = Tail(m.waiters),
                   !.pc[Head(m.waiters)] = "granted"]

\* an exception that ends every fetcher loop
RaiseAll(m, peer) ==
    [m EXCEPT !.pc = [q \in Peers |-> "exited"], !.holder = NoPeer,
              !.waiters = <<>>]

\* an exception leaves _fetcher_loop (lines 129-132, or the task dies at line
\* 106): the `with` block releases the lock, the task's locals are gone
Raise(m, peer) ==
    LET m2 == [m EXCEPT !.pc[peer] = "exited", !.b1[peer] = <<>>,
                        !.b2[peer] = <<>>, !.fut[peer] = <<>>,
                        !.skip[peer] = <<>>]
    IN  IF m.holder = peer THEN Release(m2) ELSE m2

\* `for ...: self._block_hash_priority_queue.put_nowait(item)`; with
\* via_future the item is read as f.item, which raises AttributeError when
\* fetch_blocks never set it
RECURSIVE PutAll(_, _, _)
PutAll(heap, items, via_future) ==
    IF items = <<>> THEN [heap |-> heap, err |-> FALSE]
    ELSE IF via_future /\ Head(items) \notin has_item
         THEN [heap |-> heap, err |-> TRUE]
         ELSE LET pushed == HeapPush(req, heap, Head(items))
              IN  IF pushed.err THEN pushed
                  ELSE PutAll(pushed.heap, Tail(items), via_future)

\* line 79
IsDone(block_future) == done[block_future] # NoBlock

\* a claim that never finds the peer among peers_tried
AlreadyTriedNever(tried, item, peer) == FALSE

\* line 81
AlreadyTried(tried, item, peer) == peer \in tried[item]

\* a loop that also stops on an empty queue when nothing was claimed
LoopContinuesWhileQueued(n_futures, size, queue_empty) ==
    n_futures < size /\ ~queue_empty

\* lines 74-76: whether the while loop goes on to take another item
LoopContinues(n_futures, size, queue_empty) ==
    n_futures < size /\ ~(queue_empty /\ n_futures > 0)

RECURSIVE EnterGetBatch(_, _)

\* `return futures, start_batch_time` into _fetcher_loop: line 106 is followed
\* by the _get_batch of line 109, line 109 by the asyncio.wait of line 110
Return(m, peer) ==
    IF m.phase[peer] = 1
    THEN EnterGetBatch([m EXCEPT !.b1[peer] = m.fut[peer], !.fut[peer] = <<>>,
                                 !.phase[peer] = 2], peer)
    ELSE [m EXCEPT !.b2[peer] = m.fut[peer], !.fut[peer] = <<>>,
                   !.pc[peer] = "wait"]

\* line 97 builds [f.item[0] for f in futures] for the log call, which raises
\* AttributeError for a future without .item
LogRaises(futs) == \E i \in 1..Len(futs) : futs[i] \notin has_item

\* lines 89-98: send the getdata; when send_msg raises (the next entry of
\* m.sends is FALSE), requeue every future
SendGetdata(m, peer) ==
    LET send_ok == Head(m.sends)
        put == IF send_ok THEN [heap |-> m.q, err |-> FALSE]
               ELSE PutAll(m.q, m.fut[peer], TRUE)
        m2 == [m EXCEPT !.sends = Tail(@), !.q = put.heap,
                        !.sent_dropped = IF send_ok
                                        THEN @ \cup (SeqSet(m.fut[peer]) \cap dropped)
                                        ELSE @]
        raised == put.err \/ LogRaises(m.fut[peer])
        m3 == IF send_ok THEN m2
              ELSE [m2 EXCEPT !.obs = Append(@, [kind |-> "send failed",
                                                 peer |-> peer,
                                                 batch |-> m.fut[peer],
                                                 queue |-> put.heap,
                                                 tried |-> m.tried,
                                                 raised |-> raised])]
    IN  IF raised THEN Raise(m3, peer)
        ELSE Return(m3, peer)

\* lines 87-88 and the end of the `with` block
RequeueSkipped(m, peer) ==
    LET put == PutAll(m.q, m.skip[peer], FALSE)
        m2 == [m EXCEPT !.q = put.heap, !.skip[peer] = <<>>]
        m3 == [m2 EXCEPT !.obs = Append(@, [kind |-> "claimed",
                                            peer |-> peer,
                                            batch |-> m.fut[peer],
                                            size |-> m.bs[peer],
                                            skipped |-> m.skip[peer],
                                            queue_was_empty |-> m.q = <<>>,
                                            queue |-> put.heap,
                                            tried |-> m.tried])]
    IN  IF put.err THEN Raise(m2, peer)
        ELSE SendGetdata(Release(m3), peer)

\* lines 74-86, run until the loop ends, the queue's get() suspends on an
\* empty queue, or a comparison in the heap raises
RECURSIVE ClaimLoop(_, _)
ClaimLoop(m, peer) ==
    IF ~LoopContinues(Len(m.fut[peer]), m.bs[peer], m.q = <<>>)
    THEN RequeueSkipped(m, peer)
    ELSE IF m.q = <<>> THEN [m EXCEPT !.pc[peer] = "get"]
    ELSE LET got == HeapPop(req, m.q)
             item == got.item
             m2 == [m EXCEPT !.q = got.heap]
         IN  IF got.err THEN Raise(m2, peer)
             ELSE IF IsDone(item) THEN ClaimLoop(m2, peer)
             ELSE IF AlreadyTried(m2.tried, item, peer)
                  THEN ClaimLoop([m2 EXCEPT !.skip[peer] = Append(@, item)], peer)
                  ELSE ClaimLoop([m2 EXCEPT !.tried[item] = @ \cup {peer},
                                            !.nclaim[item][peer] = Min2(@ + 1, 2),
                                            !.fut[peer] = Append(@, item)], peer)

\* a claim that does not wait for the lock
EnterGetBatchNoLock(m, peer) ==
    ClaimLoop([m EXCEPT !.holder = peer, !.pc[peer] = "granted"], peer)

\* line 70: `with (yield from self._get_batch_lock)`: taken at once when the
\* lock is free and nobody waits, else the task queues up for it
EnterGetBatch(m, peer) ==
    IF m.holder = NoPeer /\ m.waiters = <<>>
    THEN ClaimLoop([m EXCEPT !.holder = peer, !.pc[peer] = "granted"], peer)
    ELSE [m EXCEPT !.waiters = Append(@, peer), !.pc[peer] = "lockwait"]

SetMachine(m) ==
    /\ block_hash_priority_queue' = m.q
    /\ peers_tried' = m.tried
    /\ nclaim' = m.nclaim
    /\ lock_holder' = m.holder
    /\ lock_waiters' = m.waiters
    /\ pc' = m.pc
    /\ phase' = m.phase
    /\ batch_size' = m.bs
    /\ batch_1' = m.b1
    /\ batch_2' = m.b2
    /\ batch_futures' = m.fut
    /\ skipped' = m.skip
    /\ sent_dropped' = m.sent_dropped

\* add_peer: create_task(self._fetcher_loop(peer))
AddPeer(peer) ==
    /\ pc[peer] = "new"
    /\ pc' = [pc EXCEPT ![peer] = "start"]
    /\ UNCHANGED peer_vars
    /\ UNCHANGED <<req, done, has_item, held, dropped, peers_tried,
                   block_hash_priority_queue, futures, lock_holder,
                   lock_waiters, phase, batch_size, batch_1, batch_2,
                   batch_futures, skipped, nset, nclaim, sent_dropped>>

\* the task runs: from its start (lines 102-106), from the lock it was woken
\* for (line 70), or from the queue.get() that an item has unblocked (line 77)
CanRunGetBatch(peer) ==
    \/ pc[peer] \in {"start", "granted"}
    \/ pc[peer] = "get" /\ block_hash_priority_queue # <<>>

\* where the run of the task leaves the machine
RunResult(peer, sends) ==
    LET m == [Machine EXCEPT !.sends = sends]
    IN  IF pc[peer] = "start" THEN EnterGetBatch(m, peer) ELSE ClaimLoop(m, peer)

RunGetBatch(peer, sends) ==
    /\ CanRunGetBatch(peer)
    /\ SetMachine(RunResult(peer, sends))
    /\ UNCHANGED peer_vars
    /\ UNCHANGED <<req, done, has_item, held, dropped, futures, nset>>

\* ---------------------------------------------------------- _fetcher_loop
\* the batch size without the `+ 1`
NewBatchSizeNoIncrement(batch_time, item_count) ==
    LET count == IF item_count = 0 THEN 1 ELSE item_count
    IN  Min2((target_batch_time * TicksPerSecond * count) \div batch_time,
             MAX_BATCH_SIZE)

\* the batch size computed from the time of the whole batch
NewBatchSizePerBatch(batch_time, item_count) ==
    Min2(((target_batch_time * TicksPerSecond) \div batch_time) + 1, MAX_BATCH_SIZE)

\* lines 122-125, times in ticks; batch_time > 0
NewBatchSize(batch_time, item_count) ==
    LET count == IF item_count = 0 THEN 1 ELSE item_count
    IN  Min2(((target_batch_time * TicksPerSecond * count) \div batch_time) + 1,
             MAX_BATCH_SIZE)

\* line 114
NeedsRetry(f) == done[f] = NoBlock

\* lines 110-128 and on into the _get_batch of line 109: asyncio.wait returns
\* when every future of batch_1 is done, or after max_batch_time; batch_time
\* is the time measured since start_batch_time_1
CanWaitDone(peer) == pc[peer] = "wait"

\* line 110: every delivery of batch_1 is done, or the timeout has passed
WaitReturns(peer, batch_time) ==
    \/ \A i \in 1..Len(batch_1[peer]) : done[batch_1[peer][i]] # NoBlock
    \/ batch_time >= max_batch_time * TicksPerSecond

\* lines 111-128 and the _get_batch of line 109 that follows: where the run
\* of the task leaves the machine
WaitResult(peer, batch_time, sends) ==
    LET retry == SelectSeq(batch_1[peer], NeedsRetry)
        item_count == Len(batch_1[peer]) - Len(retry)
        put == PutAll(block_hash_priority_queue, retry, TRUE)
        m == [Machine EXCEPT !.q = put.heap, !.sends = sends]
    IN  IF put.err \/ batch_time = 0
        THEN Raise(m, peer)
        ELSE EnterGetBatch(
                 [m EXCEPT !.bs[peer] = NewBatchSize(batch_time, item_count),
                           !.b1[peer] = m.b2[peer],
                           !.b2[peer] = <<>>], peer)

WaitDone(peer, batch_time, sends) ==
    /\ CanWaitDone(peer)
    /\ WaitReturns(peer, batch_time)
    /\ SetMachine(WaitResult(peer, batch_time, sends))
    /\ UNCHANGED peer_vars
    /\ UNCHANGED <<req, done, has_item, held, dropped, futures, nset>>

\* ------------------------------------------------------------ environment
\* the caller of fetch_blocks lets go of a pending future
Drop(f) ==
    /\ f \in held
    /\ done[f] = NoBlock
    /\ held' = held \ {f}
    /\ dropped' = dropped \cup {f}
    /\ UNCHANGED peer_vars
    /\ UNCHANGED <<req, done, has_item, peers_tried, block_hash_priority_queue,
                   futures, lock_holder, lock_waiters, pc, phase, batch_size,
                   batch_1, batch_2, batch_futures, skipped, nset, nclaim,
                   sent_dropped>>

\* what keeps a future alive: the caller, its tuple on the queue, a list of a
\* live task
Referenced(f) ==
    \/ f \in held
    \/ f \in SeqSet(block_hash_priority_queue)
    \/ \E p \in Peers : f \in SeqSet(batch_1[p]) \cup SeqSet(batch_2[p])
                            \cup SeqSet(batch_futures[p]) \cup SeqSet(skipped[p])

\* the WeakValueDictionary loses the entry of a future nothing refers to
Collect(bh) ==
    /\ futures[bh] # NoReq
    /\ ~Referenced(futures[bh])
    /\ futures' = [futures EXCEPT ![bh] = NoReq]
    /\ UNCHANGED peer_vars
    /\ UNCHANGED <<req, done, has_item, held, dropped, peers_tried,
                   block_hash_priority_queue, lock_holder, lock_waiters, pc,
                   phase, batch_size, batch_1, batch_2, batch_futures, skipped,
                   nset, nclaim, sent_dropped>>

\* ==================================================================== Peer
\* src/pycoinnet/Peer.py.  Text is a sequence of code points, bytes are
\* numbers 0..255.  next_message is modelled in its raw form
\* (unpack_to_dict=False); the payload of send_msg is what _pack_from_data
\* returned.
Tasks == {"t1", "t2"}

NoTask == "nobody"

\* the magic the receiving Peer is constructed with, and that of a Peer of
\* another network
magic_header == <<249, 190, 180, 217>>

OtherMagic == <<11, 17, 9, 7>>

max_msg_size == MaxMsgSize

header_size == Len(magic_header)

RECURSIVE Fill(_, _)
Fill(n, b) == IF n = 0 THEN <<>> ELSE <<b>> \o Fill(n - 1, b)

\* message names given to send_msg: "tx", a 12-byte name, a 13-byte name
\* whose first 12 bytes are that name, a name holding a NUL, and a name of
\* one two-byte character
MessageNames ==
    {<<116, 120>>, Fill(11, 97) \o <<98>>, Fill(11, 97) \o <<98, 99>>,
     <<97, 0, 98>>, <<233>>}

\* payloads: empty, of max_msg_size bytes, and one byte longer
Payloads == {Fill(n, 6) : n \in {0, MaxMsgSize, MaxMsgSize + 1}}

\* what is sent to the receiving Peer: any name and payload by a Peer of its
\* network, and one message by a Peer of another network
Sendable ==
    ({magic_header} \X MessageNames \X Payloads)
    \cup {<<OtherMagic, <<116, 120>>, Fill(MaxMsgSize, 6)>>}

\* str.encode("utf8") for code points below 2048
RECURSIVE encode(_)
encode(str) ==
    IF str = <<>> THEN <<>>
    ELSE LET c == Head(str)
         IN  (IF c < 128 THEN <<c>> ELSE <<192 + (c \div 64), 128 + (c % 64)>>)
             \o encode(Tail(str))

\* bytes.decode("utf8") for one- and two-byte sequences; ok is FALSE where
\* it raises UnicodeDecodeError
RECURSIVE decode(_)
decode(bytes) ==
    IF bytes = <<>> THEN [ok |-> TRUE, str |-> <<>>]
    ELSE LET b == Head(bytes)
         IN  IF b < 128
             THEN LET r == decode(Tail(bytes))
                  IN  [ok |-> r.ok, str |-> <<b>> \o r.str]
             ELSE IF b >= 194 /\ b < 224 /\ Len(bytes) >= 2
                     /\ bytes[2] >= 128 /\ bytes[2] < 192
             THEN LET r == decode(SubSeq(bytes, 3, Len(bytes)))
                  IN  [ok |-> r.ok,
                       str |-> <<(b - 192) * 64 + (bytes[2] - 128)>> \o r.str]
             ELSE [ok |-> FALSE, str |-> <<>>]

\* struct.pack(">L", n): the four bytes in the other order
PackBigEndian(n) ==
    <<(n \div 16777216) % 256, (n \div 65536) % 256, (n \div 256) % 256, n % 256>>

\* struct.pack("<L", n)
PackL(n) ==
    <<n % 256, (n \div 256) % 256, (n \div 65536) % 256, (n \div 16777216) % 256>>

\* int.from_bytes(size_bytes, byteorder="little")
FromBytesLittle(b) == b[1] + 256 * b[2] + 65536 * b[3] + 16777216 * b[4]

\* pycoin's encoding.double_sha256, a library outside this repository: a
\* digest that depends on every byte and on the length of its input (five
\* bytes of it are produced here, the callers keep the first four)
RECURSIVE Mix(_, _)
Mix(data, acc) ==
    IF data = <<>> THEN acc
    ELSE Mix(Tail(data), (acc * 31 + Head(data) + 1) % 65521)

double_sha256(data) ==
    LET h == Mix(data, 7)
        g == Mix(data, Len(data) + 11)
    IN  <<h % 256, h \div 256, g % 256, g \div 256, Len(data) % 256>>

First4(s) == SubSeq(s, 1, 4)

\* (message_type + b'\0' * 12)[:12]
Pad12(message_type) == SubSeq(message_type \o Fill(12, 0), 1, 12)

\* message_name_bytes.replace(b"\0", b"")
RECURSIVE StripNul(_)
StripNul(bytes) ==
    IF bytes = <<>> THEN <<>>
    ELSE (IF Head(bytes) = 0 THEN <<>> ELSE <<Head(bytes)>>) \o StripNul(Tail(bytes))

\* the packet send_msg joins together
Packet(magic, message_name, message_data) ==
    magic \o Pad12(encode(message_name)) \o PackL(Len(message_data))
          \o First4(double_sha256(message_data)) \o message_data

\* send_msg of a Peer whose magic is `magic`, writing to the stream the
\* receiving Peer reads
SendMsg(magic, message_name, message_data) ==
    /\ Len(frames) < MaxFrames
    /\ ~at_eof
    /\ LET packet == Packet(magic, message_name, message_data)
       IN  /\ bytes_writ' = bytes_writ + Len(packet)
           /\ wire' = wire \o packet
           /\ frames' = Append(frames,
                               [off |-> Len(wire), magic |-> magic,
                                name |-> message_name, data |-> message_data,
                                writ |-> Len(packet), flipped |-> FALSE])
    /\ UNCHANGED <<buffered, consumed, at_eof, bytes_read, msg_lock, msg_waiters,
                   rpc, rlocal, outcome, last_read, torn, return_log>>
    /\ UNCHANGED vars

FlipBit(b) == IF b % 2 = 0 THEN b + 1 ELSE b - 1

\* the network flips one bit of payload byte i of the last frame written,
\* before any of that frame reached the reader
Tamper(i) ==
    /\ frames # <<>>
    /\ LET k == Len(frames)
           fr == frames[k]
           at == fr.off + header_size + 20 + i
       IN  /\ ~fr.flipped
           /\ buffered <= fr.off
           /\ i \in 1..Len(fr.data)
           /\ wire' = [wire EXCEPT ![at] = FlipBit(@)]
           /\ frames' = [frames EXCEPT ![k].flipped = TRUE]
    /\ UNCHANGED <<bytes_writ, buffered, consumed, at_eof, bytes_read, msg_lock,
                   msg_waiters, rpc, rlocal, outcome, last_read, torn, return_log>>
    /\ UNCHANGED vars

\* StreamReader.feed_data: n more bytes of the stream arrive, or all that
\* was written
FeedSizes == {4, 20}

Feed(n) ==
    /\ buffered + n <= Len(wire)
    /\ buffered' = buffered + n
    /\ UNCHANGED <<wire, bytes_writ, consumed, at_eof, bytes_read, msg_lock,
                   msg_waiters, rpc, rlocal, outcome, frames, last_read, torn,
                   return_log>>
    /\ UNCHANGED vars

\* StreamReader.feed_data with all that was written
FeedRest ==
    /\ buffered < Len(wire)
    /\ buffered' = Len(wire)
    /\ UNCHANGED <<wire, bytes_writ, consumed, at_eof, bytes_read, msg_lock,
                   msg_waiters, rpc, rlocal, outcome, frames, last_read, torn,
                   return_log>>
    /\ UNCHANGED vars

\* StreamReader.feed_eof: the remote side closed after everything arrived
FeedEof ==
    /\ ~at_eof
    /\ buffered = Len(wire)
    /\ at_eof' = TRUE
    /\ UNCHANGED <<wire, bytes_writ, buffered, consumed, bytes_read, msg_lock,
                   msg_waiters, rpc, rlocal, outcome, frames, last_read, torn,
                   return_log>>
    /\ UNCHANGED vars

\* ------------------------------------------------------------ next_message
\* what a task running next_message changes
Reader ==
    [consumed |-> consumed, bytes_read |-> bytes_read, lock |-> msg_lock,
     waiters |-> msg_waiters, rpc |-> rpc, rlocal |-> rlocal,
     outcome |-> outcome, last_read |-> last_read, torn |-> torn,
     return_log |-> return_log]

NoLocals ==
    [start |-> 0, call_bytes |-> 0, name |-> <<>>, size |-> 0, hash |-> <<>>,
     data |-> <<>>]

\* Lock.acquire takes the lock at once when nobody holds it or waits for it
MsgLockFreeAlways(holder) == TRUE

MsgLockFree(holder) == holder = NoTask

\* Lock.release on leaving the `with`: the first waiter is the next holder
ReleaseMsgLock(r) ==
    IF r.waiters = <<>> THEN [r EXCEPT !.lock = NoTask]
    ELSE [r EXCEPT !.lock = Head(r.waiters), !.waiters = Tail(r.waiters),
                   !.rpc[Head(r.waiters)] = "granted"]

\* an exception raised inside the `with`
RaiseInLock(r, t, why) ==
    [ReleaseMsgLock(r) EXCEPT !.rpc[t] = "idle", !.outcome[t] = why]

\* `if size > self._max_msg_size` without the test
TooLargeNever(size) == FALSE

TooLarge(size) == size > max_msg_size

HashDiffers(actual_hash, transmitted_hash) == actual_hash # transmitted_hash

\* lines 70-78, after the lock was released
CheckAndReturn(r, t) ==
    LET l == r.rlocal[t]
        actual_hash == First4(double_sha256(l.data))
    IN  IF HashDiffers(actual_hash, l.hash)
        THEN [r EXCEPT !.rpc[t] = "idle", !.outcome[t] = "checksum"]
        ELSE [r EXCEPT !.rpc[t] = "idle", !.outcome[t] = "returned",
                       !.return_log = Append(@, [task |-> t, off |-> l.start])]

\* the bytes the pending readexactly of task t asks for
Wanted(r, t) ==
    CASE r.rpc[t] = "magic" -> header_size
      [] r.rpc[t] = "header" -> 20
      [] r.rpc[t] = "payload" -> r.rlocal[t].size
      [] OTHER -> 0

\* lines 48-68: run task t from its pending readexactly to the next
\* suspension, to where it raises, or to its return
RECURSIVE Continue(_, _)
Continue(r, t) ==
    LET stage == r.rpc[t]
        n == Wanted(r, t)
        avail == buffered - r.consumed
    IN  IF stage \notin {"magic", "header", "payload"} THEN r
        ELSE IF avail < n
        THEN (IF at_eof
              THEN RaiseInLock([r EXCEPT !.consumed = buffered], t, "eof")
              ELSE r)
        ELSE LET blob == SubSeq(wire, r.consumed + 1, r.consumed + n)
                 r1 == [r EXCEPT !.consumed = @ + n,
                                 !.bytes_read = @ + n,
                                 !.rlocal[t].call_bytes = @ + n,
                                 !.last_read = [task |-> t,
                                                upto |-> r.consumed + n],
                                 !.torn = IF stage # "magic"
                                             /\ r.last_read
                                                  # [task |-> t, upto |-> r.consumed]
                                          THEN @ \cup {t} ELSE @]
             IN  CASE stage = "magic" ->
                          LET r2 == [r1 EXCEPT !.rlocal[t].start = r.consumed]
                          IN  IF blob # magic_header
                              THEN RaiseInLock(r2, t, "bad magic")
                              ELSE Continue([r2 EXCEPT !.rpc[t] = "header"], t)
                   [] stage = "header" ->
                          LET message_name == decode(StripNul(SubSeq(blob, 1, 12)))
                              size == FromBytesLittle(SubSeq(blob, 13, 16))
                          IN  IF ~message_name.ok
                              THEN RaiseInLock(r1, t, "decode error")
                              ELSE IF TooLarge(size)
                              THEN RaiseInLock(r1, t, "too large")
                              ELSE Continue(
                                     [r1 EXCEPT !.rpc[t] = "payload",
                                                !.rlocal[t].name = message_name.str,
                                                !.rlocal[t].size = size,
                                                !.rlocal[t].hash = SubSeq(blob, 17, 20)],
                                     t)
                   [] OTHER ->
                          CheckAndReturn(
                              ReleaseMsgLock([r1 EXCEPT !.rlocal[t].data = blob]), t)

SetReader(r) ==
    /\ consumed' = r.consumed
    /\ bytes_read' = r.bytes_read
    /\ msg_lock' = r.lock
    /\ msg_waiters' = r.waiters
    /\ rpc' = r.rpc
    /\ rlocal' = r.rlocal
    /\ outcome' = r.outcome
    /\ last_read' = r.last_read
    /\ torn' = r.torn
    /\ return_log' = r.return_log

\* a task calls next_message (lines 43-45)
NextMessage(t) ==
    /\ rpc[t] = "idle"
    /\ LET r == [Reader EXCEPT !.rlocal[t] = NoLocals, !.outcome[t] = "running"]
       IN  IF MsgLockFree(msg_lock)
           THEN SetReader(Continue([r EXCEPT !.lock = t, !.rpc[t] = "magic"], t))
           ELSE SetReader([r EXCEPT !.waiters = Append(@, t),
                                    !.rpc[t] = "lockwait"])
    /\ UNCHANGED <<wire, bytes_writ, buffered, at_eof, frames>>
    /\ UNCHANGED vars

\* the event loop can run task t again: it was handed the lock, or the bytes
\* its readexactly waits for arrived, or the stream ended
CanResume(t) ==
    \/ rpc[t] = "granted"
    \/ /\ rpc[t] \in {"magic", "header", "payload"}
       /\ (buffered - consumed >= Wanted(Reader, t) \/ at_eof)

Resume(t) ==
    /\ CanResume(t)
    /\ IF rpc[t] = "granted"
       THEN SetReader(Continue([Reader EXCEPT !.rpc[t] = "magic"], t))
       ELSE SetReader(Continue(Reader, t))
    /\ UNCHANGED <<wire, bytes_writ, buffered, at_eof, frames>>
    /\ UNCHANGED vars

PeerInit ==
    /\ wire = <<>>
    /\ bytes_writ = 0
    /\ buffered = 0
    /\ consumed = 0
    /\ at_eof = FALSE
    /\ bytes_read = 0
    /\ msg_lock = NoTask
    /\ msg_waiters = <<>>
    /\ rpc = [t \in Tasks |-> "idle"]
    /\ rlocal = [t \in Tasks |-> NoLocals]
    /\ outcome = [t \in Tasks |-> "none"]
    /\ frames = <<>>
    /\ last_read = [task |-> NoTask, upto |-> 0]
    /\ torn = {}
    /\ return_log = <<>>

PeerNext ==
    \/ \E s \in Sendable : SendMsg(s[1], s[2], s[3])
    \/ \E i \in {1, MaxMsgSize} : Tamper(i)
    \/ \E n \in FeedSizes : Feed(n)
    \/ FeedRest
    \/ FeedEof
    \/ \E t \in Tasks : NextMessage(t)
    \/ \E t \in Tasks : Resume(t)

\* ----------------------------------------------------------- specification
\* whether send_msg returns normally, for the sends of one run of a task (a
\* run passes through at most two _get_batch calls)
SendOutcomes == [1..2 -> BOOLEAN]

Init ==
    /\ req = <<>>
    /\ done = <<>>
    /\ has_item = {}
    /\ held = {}
    /\ dropped = {}
    /\ peers_tried = <<>>
    /\ block_hash_priority_queue = <<>>
    /\ futures = [h \in Hashes |-> NoReq]
    /\ lock_holder = NoPeer
    /\ lock_waiters = <<>>
    /\ pc = [p \in Peers |-> "new"]
    /\ phase = [p \in Peers |-> 1]
    /\ batch_size = [p \in Peers |-> initial_batch_size]
    /\ batch_1 = [p \in Peers |-> <<>>]
    /\ batch_2 = [p \in Peers |-> <<>>]
    /\ batch_futures = [p \in Peers |-> <<>>]
    /\ skipped = [p \in Peers |-> <<>>]
    /\ nset = <<>>
    /\ nclaim = <<>>
    /\ sent_dropped = {}
    /\ PeerInit

Next ==
    \/ \E l \in PairLists : FetchBlocks(l)
    \/ \E p \in Peers : AddPeer(p)
    \/ \E n \in {"block", "inv"}, h \in Hashes : HandleMsg(n, [hash |-> h])
    \/ \E p \in Peers, s \in SendOutcomes : RunGetBatch(p, s)
    \/ \E p \in Peers, t \in ElapsedTimes, s \in SendOutcomes : WaitDone(p, t, s)
    \/ \E f \in Ids : Drop(f)
    \/ \E h \in Hashes : Collect(h)

Spec == Init /\ [][Next]_all_vars

\* every send succeeds
AllSent == [i \in 1..2 |-> TRUE]

\* one fetcher task alone: only peer "A" is added, blocks arrive, every send
\* succeeds and no delivery is dropped, with up to MaxSoloReq requests
SoloNext ==
    \/ \E l \in PairLists : FetchBlocksUpTo(l, MaxSoloReq)
    \/ AddPeer("A")
    \/ \E h \in Hashes : HandleMsg("block", [hash |-> h])
    \/ RunGetBatch("A", AllSent)
    \/ \E t \in ElapsedTimes : WaitDone("A", t, AllSent)

SoloSpec == Init /\ [][SoloNext]_all_vars

\* both fetcher tasks while every send succeeds and no delivery is dropped,
\* with up to MaxQuietReq requests
QuietNext ==
    \/ \E l \in PairLists : FetchBlocksUpTo(l, MaxQuietReq)
    \/ \E p \in Peers : AddPeer(p)
    \/ \E h \in Hashes : HandleMsg("block", [hash |-> h])
    \/ \E p \in Peers : RunGetBatch(p, AllSent)
    \/ \E p \in Peers, t \in ElapsedTimes : WaitDone(p, t, AllSent)

QuietSpec == Init /\ [][QuietNext]_all_vars

\* the receiving Peer and its stream, the fetcher untouched
PeerSpec == Init /\ [][PeerNext]_all_vars

\* ------------------------------------------------------------------ claims
Pending(f) == done[f] = NoBlock

\* C1: every delivery is resolved by at most one set_result call, its value
\* is a block whose hash is the hash it was requested for, and no step
\* changes the value of a delivery that is already resolved.
C1_DeliveryResolvedOnce ==
    /\ [](\A f \in Ids :
            /\ nset[f] <= 1
            /\ (nset[f] = 1) <=> ~Pending(f)
            /\ ~Pending(f) => done[f] = req[f].bh)
    /\ [][\A f \in Ids : ~Pending(f) => done'[f] = done[f]]_vars

\* a delivery resolved after both peers were asked for it (a requeue lies
\* between the two claims) and still registered, so that a further block with
\* its hash finds it resolved
C1_Witness ==
    \E f \in Ids :
        /\ done[f] = req[f].bh
        /\ nset[f] = 1
        /\ peers_tried[f] = Peers
        /\ futures[req[f].bh] = f

\* C3: a request is claimed for a given peer at most once over its lifetime,
\* and peers_tried of a request only grows.
C3_NoDuplicateToSamePeer ==
    /\ [](\A f \in Ids : \A p \in Peers :
            /\ nclaim[f][p] <= 1
            /\ (nclaim[f][p] = 1) <=> (p \in peers_tried[f]))
    /\ [][\A f \in Ids : peers_tried[f] \subseteq peers_tried'[f]]_vars

\* a request that came back on the queue after its peer was asked for it, was
\* taken again by that peer's next claim and set aside
C3_Witness ==
    \E p \in Peers : \E i \in 1..Len(skipped[p]) :
        /\ pc[p] = "get"
        /\ nclaim[skipped[p][i]][p] = 1
        /\ Pending(skipped[p][i])

\* C7: the batch size of every fetcher loop is within 1..MAX_BATCH_SIZE in
\* every state; it starts at initial_batch_size.
C7_BatchSizeBounds ==
    \A p \in Peers :
        /\ 1 <= batch_size[p]
        /\ batch_size[p] <= MAX_BATCH_SIZE
        /\ pc[p] \in {"new", "start"} => batch_size[p] = initial_batch_size

\* one loop's size was recomputed down to 1 (a timeout with nothing
\* completed), another's up to the cap
C7_Witness ==
    \E p, q \in Peers :
        /\ batch_size[p] = 1
        /\ batch_size[q] = MAX_BATCH_SIZE

InBatch(f, p) == f \in SeqSet(batch_1[p]) \cup SeqSet(batch_2[p])

OnQueue(f) == f \in SeqSet(block_hash_priority_queue)

\* some fetcher task is able to run: it is not suspended on the lock or on
\* the empty queue, and has not ended
SomeTaskCanRun == \E p \in Peers : CanRunGetBatch(p) \/ CanWaitDone(p)

\* C2: two peers, one fetch_blocks([(h, 0)]), A holds the request in its
\* batch, got the getdata out and does not reply: the request is eventually
\* requeued by A's timeout, so as long as it sits in A's batch some task must
\* still be able to run (with no further fetch_blocks and no block arriving,
\* a state in which every task is suspended never changes).
C2_TimeoutRequeues ==
    (/\ Len(req) = 1
     /\ pc["A"] # "new" /\ pc["B"] # "new"
     /\ InBatch(1, "A")
     /\ peers_tried[1] = {"A"}
     /\ ~OnQueue(1)
     /\ 1 \notin SeqSet(skipped["A"])
     /\ Pending(1))
    => SomeTaskCanRun

\* every place a request is held for fetching: a slot of the queue, of a
\* batch of a peer, or of the lists of a claim in progress
PlacesOf(f) ==
    {<<"queue", i>> : i \in {j \in 1..Len(block_hash_priority_queue) :
                                block_hash_priority_queue[j] = f}}
    \cup UNION {
           {<<p, "batch_1", i>> : i \in {j \in 1..Len(batch_1[p]) : batch_1[p][j] = f}}
           \cup {<<p, "batch_2", i>> : i \in {j \in 1..Len(batch_2[p]) : batch_2[p][j] = f}}
           \cup {<<p, "futures", i>> :
                    i \in {j \in 1..Len(batch_futures[p]) : batch_futures[p][j] = f}}
           \cup {<<p, "skipped", i>> : i \in {j \in 1..Len(skipped[p]) : skipped[p][j] = f}}
           : p \in Peers}

\* C4: every unresolved, still referenced request is in exactly one place:
\* one copy on the queue (or set aside by the claim in progress), or in one
\* batch of one peer.
C4_ExactlyOnePlace ==
    \A f \in Ids : (Pending(f) /\ Referenced(f)) => Cardinality(PlacesOf(f)) = 1

\* the requests a step hands to peer p
Handed(p) == {f \in Ids : nclaim'[f][p] > nclaim[f][p]}

\* C5: whenever a step hands requests to a peer, the first of them has the
\* minimum priority among all unresolved requests on the queue.
C5_NextIsMinimumPriority ==
    [][\A p \in Peers :
          Handed(p) # {} =>
              \A x \in SeqSet(block_hash_priority_queue) :
                  Pending(x) => \E f \in Handed(p) : req[f].pri <= req[x].pri]_vars

\* C6: requests are taken in ascending priority and, at equal priority, in
\* the order of their insertion; stated of two requests of one batch that
\* were both taken from where fetch_blocks put them (only this peer was ever
\* asked for them).
C6_TakenInPriorityFifoOrder ==
    \A p \in Peers : \A b \in {batch_1[p], batch_2[p]} :
        \A i, j \in 1..Len(b) :
            (i < j /\ peers_tried[b[i]] = {p} /\ peers_tried[b[j]] = {p}) =>
                \/ req[b[i]].pri < req[b[j]].pri
                \/ req[b[i]].pri = req[b[j]].pri /\ b[i] < b[j]

\* C8: a request whose delivery the caller dropped while it was pending is
\* never sent in a getdata.
C8_DroppedNeverSent == sent_dropped = {}

\* a request is stranded: unresolved, asked of a peer whose loop has ended,
\* and neither on the queue nor in a list of a live task
Stranded(f) ==
    /\ Pending(f)
    /\ \E p \in peers_tried[f] : pc[p] = "exited"
    /\ PlacesOf(f) = {}

Surviving(p) == pc[p] \notin {"new", "exited"}

\* C9: requests stranded by a loop that ended are eventually requeued by the
\* timeout of a surviving loop, so while a request is stranded and a loop
\* survives, some task must still be able to run.
C9_RescueAfterPeerLoss ==
    (\E f \in Ids : Stranded(f) /\ \E p \in Peers : Surviving(p))
    => SomeTaskCanRun

\* C10: the registry entry of a hash, while there is one, is the latest
\* request made for that hash.
C10_LaterDeliveryReplacesEntry ==
    \A f \in Ids : futures[req[f].bh] = NoReq \/ futures[req[f].bh] >= f

\* --------------------------------------------------- fetcher claims, part 2
\* C14: handle_msg(name, data) with a name other than "block", or with a
\* block whose hash has no registry entry, or whose registered delivery is
\* already resolved, changes nothing: the queue, the registry, every
\* peers_tried set and every delivery are as before.
C14_HandleMsgFrame ==
    \A name \in {"block", "inv"}, h \in Hashes :
        (\/ name # "block"
         \/ futures[h] = NoReq
         \/ done[futures[h]] # NoBlock)
        => handle_msg(name, [hash |-> h])
             = [queue |-> block_hash_priority_queue, futures |-> futures,
                peers_tried |-> peers_tried, done |-> done, nset |-> nset]

\* a block can arrive for a hash without an entry and for a hash whose
\* delivery is resolved, while another request is on the queue
C14_Witness ==
    \E h1, h2 \in Hashes :
        /\ futures[h1] # NoReq
        /\ done[futures[h1]] # NoBlock
        /\ futures[h2] = NoReq
        /\ \E f \in Ids : OnQueue(f) /\ Pending(f) /\ peers_tried[f] # {}

\* every run a fetcher task can make from the current state, as the machine
\* it ends in
RunsOf(p) ==
    {RunResult(p, s) : s \in {x \in SendOutcomes : CanRunGetBatch(p)}}
    \cup {WaitResult(p, t[1], t[2]) :
              t \in {x \in ElapsedTimes \X SendOutcomes :
                         CanWaitDone(p) /\ WaitReturns(p, x[1])}}

\* the run of p left the loop of every other peer as it was, but for waking
\* the next waiter of the lock
OthersUntouched(m, p) ==
    \A q \in Peers \ {p} :
        /\ m.pc[q] = pc[q] \/ (pc[q] = "lockwait" /\ m.pc[q] = "granted")
        /\ m.phase[q] = phase[q]
        /\ m.bs[q] = batch_size[q]
        /\ m.b1[q] = batch_1[q]
        /\ m.b2[q] = batch_2[q]
        /\ m.fut[q] = batch_futures[q]
        /\ m.skip[q] = skipped[q]

C16_SendFailureRequeues ==
    \A p \in Peers : \A m \in RunsOf(p) :
        \A i \in 1..Len(m.obs) :
            m.obs[i].kind = "send failed" =>
                /\ ~m.obs[i].raised
                /\ \A j \in 1..Len(m.obs[i].batch) :
                       /\ m.obs[i].batch[j] \in SeqSet(m.obs[i].queue)
                       /\ p \in m.obs[i].tried[m.obs[i].batch[j]]

\* C17: every batch _get_batch returns holds at least one and at most
\* batch_size requests, all different, each unresolved and not tried by the
\* peer before and with the peer in its peers_tried now; the requests set
\* aside were tried by the peer and are on the queue when the lock is
\* released; a batch smaller than batch_size was ended by the empty queue,
\* and then nothing but the requests set aside is on the queue: the resolved
\* requests taken were dropped.
C17_BatchClaimResult ==
    \A p \in Peers : \A m \in RunsOf(p) :
        \A i \in 1..Len(m.obs) :
            LET o == m.obs[i]
            IN  o.kind = "claimed" =>
                    /\ Len(o.batch) >= 1
                    /\ Len(o.batch) <= o.size
                    /\ \A j, k \in 1..Len(o.batch) : j # k => o.batch[j] # o.batch[k]
                    /\ \A j \in 1..Len(o.batch) :
                           /\ Pending(o.batch[j])
                           /\ p \notin peers_tried[o.batch[j]]
                           /\ p \in o.tried[o.batch[j]]
                    /\ \A j \in 1..Len(o.skipped) :
                           /\ p \in o.tried[o.skipped[j]]
                           /\ o.skipped[j] \in SeqSet(o.queue)
                    /\ Len(o.batch) < o.size => o.queue_was_empty
                    /\ o.queue_was_empty =>
                           \A f \in Ids : Count(o.queue, f) = Count(o.skipped, f)

\* a batch was cut at batch_size: the task waits with a second batch of
\* exactly batch_size requests while an untried pending request was left on
\* the queue, next to a request the peer had tried and put back
C17_Witness ==
    \E p \in Peers :
        /\ pc[p] = "wait"
        /\ Len(batch_2[p]) = batch_size[p]
        /\ \E f \in Ids : OnQueue(f) /\ Pending(f) /\ p \notin peers_tried[f]
        /\ \E f \in Ids : OnQueue(f) /\ Pending(f) /\ p \in peers_tried[f]

\* C18: at most one task is inside the claim phase, the one holding the lock,
\* also while it is suspended on the empty queue; while a task holds the
\* lock, the run of another task takes nothing from the queue and changes no
\* peers_tried.
C18_ClaimMutualExclusion ==
    /\ \A p \in Peers :
           (pc[p] \in {"get", "granted"} \/ batch_futures[p] # <<>> \/ skipped[p] # <<>>)
           => lock_holder = p
    /\ \A p \in Peers :
           (lock_holder # NoPeer /\ lock_holder # p) =>
               \A m \in RunsOf(p) :
                   /\ m.tried = peers_tried
                   /\ m.nclaim = nclaim
                   /\ m.holder = lock_holder
                   /\ \A f \in Ids : Count(m.q, f) >= Count(block_hash_priority_queue, f)

\* a task is suspended on the empty queue inside its claim, holding a
\* request it set aside, while the other task waits for the lock with a
\* batch of its own
C18_Witness ==
    \E p, q \in Peers :
        /\ pc[p] = "get"
        /\ skipped[p] # <<>>
        /\ pc[q] = "lockwait"
        /\ batch_1[q] # <<>>

\* C19: the wait on batch_1 ends no later than max_batch_time after batch_1
\* was sent and its unresolved requests go back on the queue; the claim of
\* batch_2 before the wait does not hold this up: a loop that owns an
\* unresolved batch_1 is waiting on it, waiting for the lock, or able to go
\* on with its claim.
C19_WaitNotHeldUp ==
    \A p \in Peers :
        (/\ phase[p] = 2
         /\ pc[p] # "exited"
         /\ \E i \in 1..Len(batch_1[p]) : Pending(batch_1[p][i]))
        => (pc[p] \in {"wait", "lockwait"} \/ CanRunGetBatch(p))

\* the number of resolved deliveries of batch_1 of p
Completed(p) ==
    Cardinality({i \in 1..Len(batch_1[p]) : ~Pending(batch_1[p][i])})

\* C20: after each awaited batch the new batch size is
\* min(floor(target_batch_time / (elapsed / max(completed, 1))) + 1, 500),
\* e.g. 31 for 10 items in 1 s and 2 for 5 items in 15 s; the claim that
\* follows uses it, and the size of no other peer changes.
C20_BatchSizeAdaptation ==
    /\ NewBatchSize(1 * TicksPerSecond, 10) = 31
    /\ NewBatchSize(15 * TicksPerSecond, 5) = 2
    /\ \A p \in Peers : \A t \in ElapsedTimes, s \in SendOutcomes :
           (CanWaitDone(p) /\ WaitReturns(p, t) /\ t > 0) =>
               LET m == WaitResult(p, t, s)
                   count == IF Completed(p) = 0 THEN 1 ELSE Completed(p)
                   size == Min2(((target_batch_time * TicksPerSecond * count) \div t) + 1,
                                500)
               IN  /\ m.bs[p] = size \/ (m.pc[p] = "exited" /\ m.bs[p] = batch_size[p])
                   /\ \A q \in Peers \ {p} : m.bs[q] = batch_size[q]
                   /\ \A i \in 1..Len(m.obs) :
                          m.obs[i].kind = "claimed" => m.obs[i].size = size

\* a loop runs with the size 2 it computed from two blocks that took the
\* whole six seconds, while the other loop still runs with the initial size
C20_Witness ==
    \E p, q \in Peers :
        /\ p # q
        /\ batch_size[p] = 2
        /\ pc[p] \in {"wait", "get"}
        /\ pc[q] \in {"wait", "get", "lockwait"}
        /\ batch_size[q] = initial_batch_size

\* ------------------------------------------------------------- Peer claims
\* the last call of task t ended after reading at least the magic
Finished(t) == outcome[t] \in {"bad magic", "decode error", "too large",
                               "checksum", "returned"}

\* the frames written at stream offset off
FramesAt(off) == {k \in 1..Len(frames) : frames[k].off = off}

\* how a call that starts on the first byte of frame fr must end
Expected(fr) ==
    IF fr.magic # magic_header THEN "bad magic"
    ELSE IF Len(fr.data) > max_msg_size THEN "too large"
    ELSE IF fr.flipped THEN "checksum"
    ELSE "returned"

\* C11: next_message checks the magic first and fails on a mismatch having
\* read only len(magic) bytes; then the declared length, failing on
\* max_msg_size + 1 having read the 24 header bytes and no payload byte;
\* then it reads the payload and only then checks the checksum, so a payload
\* with a flipped bit ends in a checksum error and returns nothing; after
\* every failure the lock is released.
C11_ValidationOrder ==
    \A t \in Tasks :
        LET l == rlocal[t]
            blob == SubSeq(wire, l.start + 1, l.start + header_size)
            head == SubSeq(wire, l.start + header_size + 1, l.start + header_size + 20)
            size == FromBytesLittle(SubSeq(head, 13, 16))
            data == SubSeq(wire, l.start + header_size + 21,
                           l.start + header_size + 20 + size)
        IN  /\ outcome[t] = "bad magic" =>
                   /\ blob # magic_header
                   /\ l.call_bytes = header_size
            /\ outcome[t] = "too large" =>
                   /\ blob = magic_header
                   /\ size > max_msg_size
                   /\ l.call_bytes = header_size + 20
            /\ outcome[t] = "checksum" =>
                   /\ blob = magic_header
                   /\ size <= max_msg_size
                   /\ l.call_bytes = header_size + 20 + size
                   /\ First4(double_sha256(data)) # SubSeq(head, 17, 20)
            /\ outcome[t] = "returned" =>
                   /\ blob = magic_header
                   /\ size <= max_msg_size
                   /\ First4(double_sha256(data)) = SubSeq(head, 17, 20)
            /\ Finished(t) =>
                   \A k \in FramesAt(l.start) : outcome[t] = Expected(frames[k])
            /\ rpc[t] = "idle" => msg_lock # t

\* one call ended in a checksum error on a tampered frame and a later one
\* refused the next frame, of max_msg_size + 1 bytes, on its header alone
C11_Witness ==
    \E a, b \in Tasks :
        /\ outcome[a] = "checksum"
        /\ \E k \in FramesAt(rlocal[a].start) : frames[k].flipped
        /\ outcome[b] = "too large"
        /\ \E k \in FramesAt(rlocal[b].start) : Len(frames[k].data) = max_msg_size + 1
        /\ rlocal[b].call_bytes = 24
        /\ msg_lock = NoTask

\* C12: the header read and the payload read of a frame are made by one
\* task, which holds the lock, with no read of another task in between; a
\* task that returns got the command and payload of the whole frame that
\* starts where its call began to read; frames are returned in stream order.
C12_ReadSideMutex ==
    /\ torn = {}
    /\ \A t \in Tasks : rpc[t] \in {"magic", "header", "payload"} => msg_lock = t
    /\ \A t \in Tasks :
           outcome[t] = "returned" =>
               LET l == rlocal[t]
                   head == SubSeq(wire, l.start + header_size + 1,
                                  l.start + header_size + 20)
               IN  /\ l.size = FromBytesLittle(SubSeq(head, 13, 16))
                   /\ l.name = decode(StripNul(SubSeq(head, 1, 12))).str
                   /\ l.data = SubSeq(wire, l.start + header_size + 21,
                                      l.start + header_size + 20 + l.size)
                   /\ l.call_bytes = header_size + 20 + l.size
    /\ \A i, j \in 1..Len(return_log) :
           i < j => return_log[i].off < return_log[j].off

\* a task is suspended between the header and the payload of the second
\* frame while the task that returned the first frame waits for the lock
C12_Witness ==
    \E a, b \in Tasks :
        /\ a # b
        /\ rpc[a] = "payload"
        /\ rpc[b] = "lockwait"
        /\ Len(return_log) = 1
        /\ return_log[1].task = b
        /\ rlocal[a].start > 0

\* a message name that fits the 12-byte field and holds no NUL
FitsCommandField(message_name) ==
    /\ Len(encode(message_name)) <= 12
    /\ \A i \in 1..Len(message_name) : message_name[i] # 0

\* the round trip of frame fr through a call of task t that began on its
\* first byte
RoundTrip(fr, t) ==
    /\ outcome[t] = "returned"
    /\ rlocal[t].name = fr.name
    /\ rlocal[t].data = fr.data
    /\ rlocal[t].call_bytes = 24 + Len(fr.data)
    /\ fr.writ = 24 + Len(fr.data)

=============================================================================
